---------------------------- MODULE Spec2Model ----------------------------
(***************************************************************************)
(* Model of aws/resource_aws_ec2_transit_gateway_route_table.go: the four  *)
(* lifecycle handlers (Create, Read, Update, Delete) and the importer of   *)
(* the EC2 transit gateway route table resource, run against a remote API  *)
(* whose resource moves through pending -> available -> deleting ->        *)
(* deleted.                                                                *)
(*                                                                         *)
(* Each handler is a pure operator over the resource data d and the        *)
(* responses of the remote calls it makes; it returns the new resource     *)
(* data, the returned error and the remote calls it issued, in order.      *)
(* The actions feed the handlers with the responses the remote side can    *)
(* give in its current state.                                              *)
(***************************************************************************)
EXTENDS Integers, Sequences, FiniteSets, TLC

VARIABLES
    d,        \* *schema.ResourceData of the one entity: id and attributes
    remote,   \* the remote route table the resource data last referred to
    created,  \* number of remote creations that succeeded so far
    imports,  \* number of imports of the entity so far
    destroyed,\* the identifier d holds, once a Delete of it returned success
    last      \* the latest handler invocation: entry data, responses, result

vars == <<d, remote, created, imports, destroyed, last>>

(***************************************************************************)
(* Bounds and input sets.                                                  *)
(***************************************************************************)
MaxCreates == 2
MaxImports == 1

TgwIds == {"tgw-1", "tgw-2"}

\* Tag keys: one the configuration manages, one the provider reserves (the
\* "aws:" prefix), one the provider configuration says to ignore.
UserTagKeys == {"env"}
AwsTagKeys == {"aws:cloudformation:stack-name"}
IgnoredTagKeys == {"team"}
TagValues == {"prod", "dev"}

TagMapsOver(keys, values) == UNION {[K -> values] : K \in SUBSET keys}
UserTagMaps == TagMapsOver(UserTagKeys, TagValues)
NoTags == [k \in {} |-> "prod"]

\* Tags that other systems put on the remote route table.
SystemTags == [k \in AwsTagKeys \cup IgnoredTagKeys |-> "platform"]
SystemTagMaps == {NoTags, SystemTags}

\* The two read-only flags as the remote side may compute them.
RemoteFlags == {<<TRUE, FALSE>>, <<FALSE, TRUE>>}

\* meta.(*AWSClient)
meta ==
    [partition |-> "aws", region |-> "us-east-1", accountid |-> "123456789012",
     ignoreTagKeys |-> IgnoredTagKeys]

Restrict(m, keys) == [k \in (DOMAIN m) \cap keys |-> m[k]]

(***************************************************************************)
(* Identifiers and resource locators.  The empty string is the empty       *)
(* sequence; a remote-assigned identifier is "tgw-rtb-<n>".                *)
(***************************************************************************)
EmptyId == <<>>
RtbId(n) == <<"tgw-rtb", n>>
\* An identifier the caller of an import supplies, of a route table that
\* this entity did not create.
ExtId(n) == <<"tgw-rtb-ext", n>>
NoArn == <<>>

(***************************************************************************)
(* Errors.                                                                 *)
(***************************************************************************)
NilErr == [kind |-> "nil", code |-> ""]
AwsErr(c) == [kind |-> "awserr", code |-> c]
NotFoundCode == "InvalidRouteTableID.NotFound"
NotFoundErr == AwsErr(NotFoundCode)
IncorrectStateErr == AwsErr("IncorrectState")
RequestErr == [kind |-> "error", code |-> "RequestError"]
TimeoutErr == [kind |-> "error", code |-> "timeout while waiting for state"]
UnexpectedStateErr == [kind |-> "error", code |-> "unexpected state"]
NotCalled == [kind |-> "notcalled", code |-> ""]

Wrap(msg, err) == [kind |-> "wrapped", code |-> msg]

isAWSErr(err, code) == err.kind = "awserr" /\ err.code = code

(***************************************************************************)
(* Resource data.                                                          *)
(***************************************************************************)
NewResourceData(tgw, tags) ==
    [id |-> EmptyId,
     arn |-> NoArn,
     default_association_route_table |-> FALSE,
     default_propagation_route_table |-> FALSE,
     tags |-> tags,
     transit_gateway_id |-> tgw]

SetId(rd, v) == [rd EXCEPT !.id = v]

(***************************************************************************)
(* Tag filtering done by Read.                                             *)
(***************************************************************************)
HasAwsPrefix(k) == k \in AwsTagKeys

IgnoreAws(m) == Restrict(m, {k \in DOMAIN m : ~HasAwsPrefix(k)})

IgnoreConfig(m, cfg) == Restrict(m, (DOMAIN m) \ cfg)

dSetTagsFails(m) == \E k \in DOMAIN m : m[k] \notin STRING

BuildArn(m, id) ==
    <<"arn", m.partition, "ec2", m.region, m.accountid,
      <<"transit-gateway-route-table", id>>>>

(***************************************************************************)
(* Remote call names, as recorded in the calls a handler issued.           *)
(***************************************************************************)
CallCreate == "CreateTransitGatewayRouteTable"
CallWaitCreation == "waitForEc2TransitGatewayRouteTableCreation"
CallDescribe == "ec2DescribeTransitGatewayRouteTable"
CallUpdateTags == "Ec2UpdateTags"
CallDelete == "DeleteTransitGatewayRouteTable"
CallWaitDeletion == "waitForEc2TransitGatewayRouteTableDeletion"

StateDeleting == "deleting"
StateDeleted == "deleted"
StatePending == "pending"
StateAvailable == "available"


(***************************************************************************)
(* resourceAwsEc2TransitGatewayRouteTableRead.  resp is what               *)
(* ec2DescribeTransitGatewayRouteTable returned: resp.rt is <<>> for a nil *)
(* descriptor and <<descriptor>> otherwise, resp.err the error.            *)
(***************************************************************************)
ReadNotFound_AnyAwsErr(err) == err.kind = "awserr"

ReadNotFound_Never(err) == FALSE

\* line 78: the describe error is the not-found error
ReadNotFound(err) == isAWSErr(err, NotFoundCode)

InDeletedState_OnlyDeleted(rt) == rt.State = StateDeleted

\* line 94: the descriptor is in the deleting or the deleted state
InDeletedState(rt) == rt.State = StateDeleting \/ rt.State = StateDeleted

ReadHandler(rd, m, resp) ==
    IF ReadNotFound(resp.err)
    THEN [d |-> SetId(rd, EmptyId), err |-> NilErr, calls |-> <<CallDescribe>>]
    ELSE IF resp.err # NilErr
    THEN [d |-> rd,
          err |-> Wrap("error reading EC2 Transit Gateway Route Table", resp.err),
          calls |-> <<CallDescribe>>]
    ELSE IF resp.rt = <<>>
    THEN [d |-> SetId(rd, EmptyId), err |-> NilErr, calls |-> <<CallDescribe>>]
    ELSE LET rt == resp.rt[1] IN
    IF InDeletedState(rt)
    THEN [d |-> SetId(rd, EmptyId), err |-> NilErr, calls |-> <<CallDescribe>>]
    ELSE LET tags == IgnoreConfig(IgnoreAws(rt.Tags), m.ignoreTagKeys)
             d1 == [rd EXCEPT
                      !.default_association_route_table = rt.DefaultAssociationRouteTable,
                      !.default_propagation_route_table = rt.DefaultPropagationRouteTable]
         IN
    IF dSetTagsFails(tags)
    THEN [d |-> d1, err |-> Wrap("error setting tags", NilErr),
          calls |-> <<CallDescribe>>]
    ELSE [d |-> [d1 EXCEPT !.tags = tags,
                           !.transit_gateway_id = rt.TransitGatewayId,
                           !.arn = BuildArn(m, rd.id)],
          err |-> NilErr,
          calls |-> <<CallDescribe>>]

(***************************************************************************)
(* resourceAwsEc2TransitGatewayRouteTableCreate.  cresp is the response of *)
(* CreateTransitGatewayRouteTable (the assigned id and the error), werr    *)
(* the error of the wait for availability, dresp the describe response     *)
(* handed to the Read that Create ends with.                               *)
(***************************************************************************)
CreateInput(rd) ==
    [TransitGatewayId |-> rd.transit_gateway_id, Tags |-> rd.tags]

\* Variant: the identifier is dropped again when the wait fails.
CreateHandler_ClearsOnWaitFailure(rd, m, cresp, werr, dresp) ==
    IF cresp.err # NilErr
    THEN [d |-> rd,
          err |-> Wrap("error creating EC2 Transit Gateway Route Table", cresp.err),
          calls |-> <<CallCreate>>]
    ELSE LET d1 == SetId(rd, cresp.id) IN
    IF werr # NilErr
    THEN [d |-> SetId(d1, EmptyId),
          err |-> Wrap("error waiting for EC2 Transit Gateway Route Table availability", werr),
          calls |-> <<CallCreate, CallWaitCreation>>]
    ELSE LET r == ReadHandler(d1, m, dresp) IN
         [d |-> r.d, err |-> r.err,
          calls |-> <<CallCreate, CallWaitCreation>> \o r.calls]

\* Variant: the error of the create call is not checked before the wait.
CreateHandler_IgnoresCreateError(rd, m, cresp, werr, dresp) ==
    LET d1 == SetId(rd, cresp.id) IN
    IF werr # NilErr
    THEN [d |-> d1,
          err |-> Wrap("error waiting for EC2 Transit Gateway Route Table availability", werr),
          calls |-> <<CallCreate, CallWaitCreation>>]
    ELSE LET r == ReadHandler(d1, m, dresp) IN
         [d |-> r.d, err |-> r.err,
          calls |-> <<CallCreate, CallWaitCreation>> \o r.calls]

CreateHandler(rd, m, cresp, werr, dresp) ==
    IF cresp.err # NilErr
    THEN [d |-> rd,
          err |-> Wrap("error creating EC2 Transit Gateway Route Table", cresp.err),
          calls |-> <<CallCreate>>]
    ELSE LET d1 == SetId(rd, cresp.id) IN
    IF werr # NilErr
    THEN [d |-> d1,
          err |-> Wrap("error waiting for EC2 Transit Gateway Route Table availability", werr),
          calls |-> <<CallCreate, CallWaitCreation>>]
    ELSE LET r == ReadHandler(d1, m, dresp) IN
         [d |-> r.d, err |-> r.err,
          calls |-> <<CallCreate, CallWaitCreation>> \o r.calls]

(***************************************************************************)
(* resourceAwsEc2TransitGatewayRouteTableUpdate.  o and n are the old and  *)
(* new tag mappings of d.GetChange("tags"), terr the error of              *)
(* Ec2UpdateTags.                                                          *)
(***************************************************************************)
HasChange(o, n) == o # n

\* Variant: the tags are written whether or not they changed.
UpdateHandler_AlwaysUpdates(rd, o, n, terr) ==
    IF terr # NilErr
    THEN [d |-> rd,
          err |-> Wrap("error updating EC2 Transit Gateway Route Table tags", terr),
          calls |-> <<CallUpdateTags>>]
    ELSE [d |-> rd, err |-> NilErr, calls |-> <<CallUpdateTags>>]

UpdateHandler(rd, o, n, terr) ==
    IF HasChange(o, n)
    THEN IF terr # NilErr
         THEN [d |-> rd,
               err |-> Wrap("error updating EC2 Transit Gateway Route Table tags", terr),
               calls |-> <<CallUpdateTags>>]
         ELSE [d |-> rd, err |-> NilErr, calls |-> <<CallUpdateTags>>]
    ELSE [d |-> rd, err |-> NilErr, calls |-> <<>>]

(***************************************************************************)
(* resourceAwsEc2TransitGatewayRouteTableDelete.  derr is the error of     *)
(* DeleteTransitGatewayRouteTable, werr the error of the wait for          *)
(* deletion.                                                               *)
(***************************************************************************)
DeleteNotFound_Never(err) == FALSE

\* line 146: the delete error is the not-found error
DeleteNotFound(err) == isAWSErr(err, NotFoundCode)

\* Variant: a failed wait for deletion is not reported.
DeleteHandler_IgnoresWaitError(rd, derr, werr) ==
    IF DeleteNotFound(derr)
    THEN [d |-> rd, err |-> NilErr, calls |-> <<CallDelete>>]
    ELSE IF derr # NilErr
    THEN [d |-> rd,
          err |-> Wrap("error deleting EC2 Transit Gateway Route Table", derr),
          calls |-> <<CallDelete>>]
    ELSE [d |-> rd, err |-> NilErr, calls |-> <<CallDelete, CallWaitDeletion>>]

\* Variant: Delete clears the identifier once the route table is gone.
DeleteHandler_ClearsId(rd, derr, werr) ==
    IF DeleteNotFound(derr)
    THEN [d |-> SetId(rd, EmptyId), err |-> NilErr, calls |-> <<CallDelete>>]
    ELSE IF derr # NilErr
    THEN [d |-> rd,
          err |-> Wrap("error deleting EC2 Transit Gateway Route Table", derr),
          calls |-> <<CallDelete>>]
    ELSE IF werr # NilErr
    THEN [d |-> rd,
          err |-> Wrap("error waiting for EC2 Transit Gateway Route Table deletion", werr),
          calls |-> <<CallDelete, CallWaitDeletion>>]
    ELSE [d |-> SetId(rd, EmptyId), err |-> NilErr,
          calls |-> <<CallDelete, CallWaitDeletion>>]

DeleteHandler(rd, derr, werr) ==
    IF DeleteNotFound(derr)
    THEN [d |-> rd, err |-> NilErr, calls |-> <<CallDelete>>]
    ELSE IF derr # NilErr
    THEN [d |-> rd,
          err |-> Wrap("error deleting EC2 Transit Gateway Route Table", derr),
          calls |-> <<CallDelete>>]
    ELSE IF werr # NilErr
    THEN [d |-> rd,
          err |-> Wrap("error waiting for EC2 Transit Gateway Route Table deletion", werr),
          calls |-> <<CallDelete, CallWaitDeletion>>]
    ELSE [d |-> rd, err |-> NilErr, calls |-> <<CallDelete, CallWaitDeletion>>]

(***************************************************************************)
(* The remote side.  One route table is tracked: the one the resource data *)
(* last referred to, created by this entity or named by an import          *)
(* (identifiers are never reused, and the resource data holds no other).   *)
(* Its state only moves forward, by                                        *)
(* itself (pending -> available, deleting -> deleted) or by a deletion     *)
(* requested by this handler or by anyone else.                            *)
(***************************************************************************)
StateNone == "none"

Rank(s) ==
    CASE s = StateNone -> 0
      [] s = StatePending -> 1
      [] s = StateAvailable -> 2
      [] s = StateDeleting -> 3
      [] s = StateDeleted -> 4

RemoteStates == {StatePending, StateAvailable, StateDeleting, StateDeleted}

NoRemote ==
    [id |-> EmptyId, state |-> StateNone, tgw |-> "", tags |-> NoTags,
     assoc |-> FALSE, prop |-> FALSE]

EnvAdvance(r) ==
    IF r.state = StateNone
    THEN {r}
    ELSE {[r EXCEPT !.state = s] : s \in {t \in RemoteStates : Rank(t) >= Rank(r.state)}}

Absent(r, id) == r.id # id \/ r.state = StateNone

Merge(a, b) ==
    [k \in (DOMAIN a) \cup (DOMAIN b) |-> IF k \in DOMAIN b THEN b[k] ELSE a[k]]

Descriptor(r) ==
    [TransitGatewayRouteTableId |-> r.id,
     State |-> r.state,
     TransitGatewayId |-> r.tgw,
     Tags |-> r.tags,
     DefaultAssociationRouteTable |-> r.assoc,
     DefaultPropagationRouteTable |-> r.prop]

OtherErrs == {RequestErr, IncorrectStateErr}

NoCreateResp == [id |-> EmptyId, err |-> NotCalled]
NoDescribeResp == [rt |-> <<>>, err |-> NotCalled]

\* conn.CreateTransitGatewayRouteTable(input): fails, or creates route table
\* number n in state pending and returns its identifier.
RemoteCreate(r, n, input) ==
    {[resp |-> [id |-> EmptyId, err |-> e], remote |-> r] : e \in OtherErrs}
    \cup
    {[resp |-> [id |-> RtbId(n), err |-> NilErr],
      remote |-> [id |-> RtbId(n), state |-> StatePending,
                  tgw |-> input.TransitGatewayId,
                  tags |-> Merge(input.Tags, sys),
                  assoc |-> f[1], prop |-> f[2]]] :
        sys \in SystemTagMaps, f \in RemoteFlags}

\* ec2DescribeTransitGatewayRouteTable(conn, id).
RemoteDescribe(r, id) ==
    UNION {
        (IF r1 = r
         THEN {[resp |-> [rt |-> <<>>, err |-> e], remote |-> r] : e \in OtherErrs}
         ELSE {})
        \cup
        (IF Absent(r1, id) \/ r1.state = StateDeleted
         THEN {[resp |-> [rt |-> <<>>, err |-> NotFoundErr], remote |-> r1],
               [resp |-> [rt |-> <<>>, err |-> NilErr], remote |-> r1]}
         ELSE {})
        \cup
        (IF ~Absent(r1, id)
         THEN {[resp |-> [rt |-> <<Descriptor(r1)>>, err |-> NilErr], remote |-> r1]}
         ELSE {})
      : r1 \in EnvAdvance(r)}

\* waitForEc2TransitGatewayRouteTableCreation(conn, id): succeeds once the
\* route table is seen available.
WaitCreation(r, id) ==
    UNION {
        (IF r1 = r THEN {[err |-> RequestErr, remote |-> r]} ELSE {})
        \cup
        (IF Absent(r1, id) THEN {[err |-> UnexpectedStateErr, remote |-> r1]}
         ELSE IF r1.state = StateAvailable THEN {[err |-> NilErr, remote |-> r1]}
         ELSE IF r1.state = StatePending THEN {[err |-> TimeoutErr, remote |-> r1]}
         ELSE {[err |-> UnexpectedStateErr, remote |-> r1]})
      : r1 \in EnvAdvance(r)}

\* conn.DeleteTransitGatewayRouteTable(input).
RemoteDelete(r, id) ==
    UNION {
        (IF r1 = r THEN {[err |-> RequestErr, remote |-> r]} ELSE {})
        \cup
        (IF Absent(r1, id) THEN {[err |-> NotFoundErr, remote |-> r1]}
         ELSE IF r1.state = StateDeleted
              THEN {[err |-> NotFoundErr, remote |-> r1],
                    [err |-> IncorrectStateErr, remote |-> r1]}
         ELSE IF r1.state = StateDeleting
              THEN {[err |-> NilErr, remote |-> r1],
                    [err |-> IncorrectStateErr, remote |-> r1]}
         ELSE {[err |-> NilErr, remote |-> [r1 EXCEPT !.state = StateDeleting]]})
      : r1 \in EnvAdvance(r)}

\* waitForEc2TransitGatewayRouteTableDeletion(conn, id): succeeds once the
\* route table is seen deleted or is not found.
WaitDeletion(r, id) ==
    UNION {
        (IF r1 = r THEN {[err |-> RequestErr, remote |-> r]} ELSE {})
        \cup
        (IF Absent(r1, id) \/ r1.state = StateDeleted
         THEN {[err |-> NilErr, remote |-> r1]}
         ELSE {[err |-> TimeoutErr, remote |-> r1]})
      : r1 \in EnvAdvance(r)}

\* keyvaluetags.Ec2UpdateTags(conn, id, o, n): removes the keys of o that n
\* lacks, then writes the entries of n that o lacks or holds differently.
RemovedKeys(o, n) == (DOMAIN o) \ (DOMAIN n)
UpdatedTags(o, n) ==
    Restrict(n, {k \in DOMAIN n : k \notin DOMAIN o \/ o[k] # n[k]})

RemoteUpdateTags(r, id, o, n) ==
    UNION {
        (IF r1 = r THEN {[err |-> RequestErr, remote |-> r]} ELSE {})
        \cup
        (IF Absent(r1, id) \/ r1.state \in {StateDeleting, StateDeleted}
         THEN {[err |-> NotFoundErr, remote |-> r1]}
         ELSE {[err |-> NilErr,
                remote |-> [r1 EXCEPT !.tags =
                    Merge(Restrict(r1.tags, (DOMAIN r1.tags) \ RemovedKeys(o, n)),
                          UpdatedTags(o, n))]]})
      : r1 \in EnvAdvance(r)}

(***************************************************************************)
(* The state machine.                                                      *)
(***************************************************************************)
NoCall ==
    [op |-> "none", err |-> NilErr, calls |-> <<>>,
     pre |-> NewResourceData("", NoTags), new |-> NoTags, again |-> FALSE,
     create |-> NoCreateResp, wait |-> NotCalled, describe |-> NoDescribeResp,
     delete |-> NotCalled, tag |-> NotCalled]

Init ==
    /\ d = NewResourceData("", NoTags)
    /\ remote = NoRemote
    /\ created = 0
    /\ imports = 0
    /\ destroyed = EmptyId
    /\ last = NoCall

(***************************************************************************)
(* One run of a handler against the remote side.  The handler decides      *)
(* which calls are made: a call is answered (and takes effect remotely)    *)
(* only when the handler's calls show that it was issued.                  *)
(***************************************************************************)
CreateRuns(d0, m, r, n) ==
    UNION {
        LET h1 == CreateHandler(d0, m, c.resp, NotCalled, NoDescribeResp) IN
        IF Len(h1.calls) <= 1
        THEN {[h |-> h1, remote |-> c.remote, create |-> c.resp,
               wait |-> NotCalled, describe |-> NoDescribeResp]}
        ELSE UNION {
            LET h2 == CreateHandler(d0, m, c.resp, w.err, NoDescribeResp) IN
            IF Len(h2.calls) <= 2
            THEN {[h |-> h2, remote |-> w.remote, create |-> c.resp,
                   wait |-> w.err, describe |-> NoDescribeResp]}
            ELSE {[h |-> CreateHandler(d0, m, c.resp, w.err, q.resp),
                   remote |-> q.remote, create |-> c.resp,
                   wait |-> w.err, describe |-> q.resp] :
                     q \in RemoteDescribe(w.remote, h2.d.id)}
          : w \in WaitCreation(c.remote, h1.d.id)}
      : c \in RemoteCreate(r, n, CreateInput(d0))}

UpdateRuns(rd, o, n, r) ==
    LET h0 == UpdateHandler(rd, o, n, NotCalled) IN
    IF Len(h0.calls) = 0
    THEN {[h |-> h0, remote |-> r, tag |-> NotCalled]}
    ELSE {[h |-> UpdateHandler(rd, o, n, t.err), remote |-> t.remote, tag |-> t.err] :
            t \in RemoteUpdateTags(r, rd.id, o, n)}

DeleteRuns(rd, r) ==
    UNION {
        LET h1 == DeleteHandler(rd, c.err, NotCalled) IN
        IF Len(h1.calls) <= 1
        THEN {[h |-> h1, remote |-> c.remote, delete |-> c.err, wait |-> NotCalled]}
        ELSE {[h |-> DeleteHandler(rd, c.err, w.err), remote |-> w.remote,
               delete |-> c.err, wait |-> w.err] :
                 w \in WaitDeletion(c.remote, rd.id)}
      : c \in RemoteDelete(r, rd.id)}

\* Importer.State = schema.ImportStatePassthrough: the resource data that the
\* framework made for the import is returned as it is.
ImportStatePassthrough(rd) == [d |-> rd, err |-> NilErr, calls |-> <<>>]

\* What an import may name: the route table the entity referred to before, a
\* route table made elsewhere (in any state), or no route table at all.
ImportedTags == Merge([k \in UserTagKeys |-> "prod"], SystemTags)
ImportedFlags == <<TRUE, FALSE>>

ImportTargets(r, n) ==
    (IF r.id # EmptyId THEN {[id |-> r.id, remote |-> r]} ELSE {})
    \cup
    {[id |-> ExtId(n), remote |-> NoRemote]}
    \cup
    {[id |-> ExtId(n),
      remote |-> [id |-> ExtId(n), state |-> s, tgw |-> g, tags |-> ImportedTags,
                  assoc |-> ImportedFlags[1], prop |-> ImportedFlags[2]]] :
        s \in RemoteStates, g \in TgwIds}

\* The framework imports an entity that has no identifier: it makes a new
\* resource data, sets the identifier the caller gave and calls the importer.
\* A Read follows before anything else is done with the entity.
Import ==
    /\ d.id = EmptyId
    /\ imports < MaxImports
    /\ \E t \in ImportTargets(remote, imports + 1) :
         LET d0 == SetId(NewResourceData("", NoTags), t.id)
             h == ImportStatePassthrough(d0)
         IN /\ d' = h.d
            /\ remote' = t.remote
            /\ last' = [NoCall EXCEPT
                            !.op = "Import", !.err = h.err, !.calls = h.calls,
                            !.pre = d0]
    /\ imports' = imports + 1
    /\ destroyed' = EmptyId
    /\ UNCHANGED created

\* The framework calls Create on an entity that has no identifier, with the
\* configured transit_gateway_id (validated non-empty) and tags.
Create ==
    /\ d.id = EmptyId
    /\ created < MaxCreates
    /\ \E tgw \in TgwIds, tags \in UserTagMaps :
         LET d0 == NewResourceData(tgw, tags) IN
         \E run \in CreateRuns(d0, meta, remote, created + 1) :
           /\ d' = run.h.d
           /\ remote' = run.remote
           /\ created' = IF run.create.err = NilErr THEN created + 1 ELSE created
           /\ last' = [NoCall EXCEPT
                           !.op = "Create", !.err = run.h.err, !.calls = run.h.calls,
                           !.pre = d0, !.new = tags,
                           !.create = run.create, !.wait = run.wait,
                           !.describe = run.describe]
    /\ destroyed' = EmptyId
    /\ UNCHANGED imports

Read ==
    /\ d.id # EmptyId
    /\ \E q \in RemoteDescribe(remote, d.id) :
         LET h == ReadHandler(d, meta, q.resp) IN
         /\ d' = h.d
         /\ remote' = q.remote
         /\ last' = [NoCall EXCEPT
                         !.op = "Read", !.err = h.err, !.calls = h.calls,
                         !.pre = d, !.new = d.tags, !.describe = q.resp]
         /\ destroyed' = IF h.d.id = d.id THEN destroyed ELSE EmptyId
    /\ UNCHANGED <<created, imports>>

\* The framework hands Update the resource data with the planned tags merged
\* in; the handler itself writes nothing to it.
Update ==
    /\ d.id # EmptyId
    /\ last.op # "Import"
    /\ \E n \in UserTagMaps :
       \E run \in UpdateRuns(d, d.tags, n, remote) :
         /\ d' = [run.h.d EXCEPT !.tags = n]
         /\ remote' = run.remote
         /\ last' = [NoCall EXCEPT
                         !.op = "Update", !.err = run.h.err, !.calls = run.h.calls,
                         !.pre = d, !.new = n, !.tag = run.tag]
    /\ UNCHANGED <<created, imports, destroyed>>

Delete ==
    /\ d.id # EmptyId
    /\ last.op # "Import"
    /\ \E run \in DeleteRuns(d, remote) :
         /\ d' = run.h.d
         /\ remote' = run.remote
         /\ last' = [NoCall EXCEPT
                         !.op = "Delete", !.err = run.h.err, !.calls = run.h.calls,
                         !.pre = d, !.new = d.tags,
                         !.again = (destroyed = d.id),
                         !.delete = run.delete, !.wait = run.wait]
         /\ destroyed' = IF run.h.err = NilErr THEN d.id ELSE destroyed
    /\ UNCHANGED <<created, imports>>

\* The remote side moves on between two invocations.
RemoteAdvance ==
    /\ \E r1 \in EnvAdvance(remote) : r1 # remote /\ remote' = r1
    /\ UNCHANGED <<d, created, imports, destroyed, last>>

Next == Import \/ Create \/ Read \/ Update \/ Delete \/ RemoteAdvance

Spec == Init /\ [][Next]_vars

(***************************************************************************)
(* Properties.  They read the latest invocation from last: the resource    *)
(* data at entry (last.pre), the responses the remote side gave, the calls *)
(* issued and the error returned (last.err), and the resource data and     *)
(* remote route table it left behind (d, remote).                          *)
(***************************************************************************)
Succeeded == last.err = NilErr
Failed == last.err # NilErr

DescribedNothing ==
    \/ isAWSErr(last.describe.err, NotFoundCode)
    \/ last.describe.err = NilErr /\ last.describe.rt = <<>>

\* C1: a Read whose describe call reports InvalidRouteTableID.NotFound, or
\* yields no descriptor, returns nil and leaves the identifier empty,
\* whatever the resource data held at entry.
C1_ReadNotFoundClearsId ==
    (last.op = "Read" /\ DescribedNothing) =>
        (Succeeded /\ d.id = EmptyId)

C1_Witness ==
    /\ last.op = "Read"
    /\ isAWSErr(last.describe.err, NotFoundCode)
    /\ last.pre.id # EmptyId
    /\ last.pre.arn # NoArn
    /\ Succeeded
    /\ d.id = EmptyId

\* C2: a Delete whose remote delete call reports not-found (as a second Delete
\* of an identifier does once the first has completed) returns nil, and does
\* not wait for the deletion.
C2_DeleteNotFoundSucceeds ==
    (last.op = "Delete" /\ isAWSErr(last.delete, NotFoundCode)) =>
        (Succeeded /\ last.calls = <<CallDelete>> /\ last.wait = NotCalled)

C2_Witness ==
    /\ last.op = "Delete"
    /\ last.again
    /\ isAWSErr(last.delete, NotFoundCode)
    /\ Succeeded
    /\ last.calls = <<CallDelete>>

\* C3: when the create call succeeds and the wait for availability fails,
\* Create returns an error, the identifier stays the one the remote side
\* assigned, and Create has issued neither a describe nor a delete call.
C3_WaitFailureKeepsId ==
    (last.op = "Create" /\ last.create.err = NilErr /\ last.wait # NilErr) =>
        /\ Failed
        /\ d.id = last.create.id
        /\ d.id # EmptyId
        /\ last.calls = <<CallCreate, CallWaitCreation>>

C3_Witness ==
    /\ last.op = "Create"
    /\ last.create.err = NilErr
    /\ last.wait = TimeoutErr
    /\ Failed
    /\ d.id = RtbId(created)
    /\ remote.state = StatePending

\* C4: a Create that returns nil leaves a non-empty identifier and the
\* transit_gateway_id that was given to it.
C4_CreateSuccessHasId ==
    (last.op = "Create" /\ Succeeded) =>
        (d.id # EmptyId /\ d.transit_gateway_id = last.pre.transit_gateway_id)

\* C5: an Update whose old and new tags are equal issues no remote call and
\* returns nil; Update issues at most one call, the tag update, and only when
\* the tags differ.
C5_UpdateCallsOnlyOnChange ==
    last.op = "Update" =>
        /\ (last.pre.tags = last.new => (last.calls = <<>> /\ Succeeded))
        /\ (last.calls # <<>> =>
               (last.calls = <<CallUpdateTags>> /\ last.pre.tags # last.new))

C5_Witness ==
    /\ last.op = "Update"
    /\ last.pre.tags = last.new
    /\ last.new # NoTags
    /\ last.calls = <<>>
    /\ last.tag = NotCalled
    /\ Succeeded

\* C6: when the create call fails, Create returns an error without waiting or
\* reading, and the identifier is still empty.
C6_CreateFailureRecordsNoId ==
    (last.op = "Create" /\ last.create.err # NilErr) =>
        (Failed /\ last.calls = <<CallCreate>> /\ d.id = EmptyId)

C6_Witness ==
    /\ last.op = "Create"
    /\ last.create.err = RequestErr
    /\ Failed
    /\ last.calls = <<CallCreate>>
    /\ d.id = EmptyId
    /\ created = 0

\* C7: a Read that gets a descriptor in the deleting or deleted state clears
\* the identifier, returns nil and writes no attribute; with a descriptor in
\* any other state it keeps the identifier and writes the two flags, the tags
\* (less the reserved and the ignored keys), the transit_gateway_id and the
\* arn built from the identifier.
C7_ReadByRemoteState ==
    (last.op = "Read" /\ last.describe.err = NilErr /\ last.describe.rt # <<>>) =>
        LET rt == last.describe.rt[1] IN
        IF rt.State \in {StateDeleting, StateDeleted}
        THEN Succeeded /\ d = [last.pre EXCEPT !.id = EmptyId]
        ELSE /\ Succeeded
             /\ d.id = last.pre.id
             /\ d.default_association_route_table = rt.DefaultAssociationRouteTable
             /\ d.default_propagation_route_table = rt.DefaultPropagationRouteTable
             /\ d.tags = [k \in (DOMAIN rt.Tags) \ (AwsTagKeys \cup IgnoredTagKeys)
                            |-> rt.Tags[k]]
             /\ d.transit_gateway_id = rt.TransitGatewayId
             /\ d.arn = <<"arn", "aws", "ec2", "us-east-1", "123456789012",
                          <<"transit-gateway-route-table", last.pre.id>>>>

C7_Witness ==
    /\ last.op = "Read"
    /\ last.describe.err = NilErr
    /\ last.describe.rt # <<>>
    /\ last.describe.rt[1].State = StateDeleting
    /\ last.pre.id # EmptyId
    /\ last.pre.tags # last.describe.rt[1].Tags
    /\ d.id = EmptyId
    /\ d.tags = last.pre.tags

\* C8 as stated: for an entity that only Create, Read, Update and Delete
\* have handled (it was never imported), the identifier is empty until a
\* create call has succeeded, and once set it never changes.
C8_IdNeverChanges ==
    [][imports' = 0 =>
         /\ (d.id # EmptyId => d'.id = d.id)
         /\ (created' = 0 => d'.id = EmptyId)]_vars

\* C8 as amended: the identifier is empty until a create call has succeeded
\* (or the entity has been imported); it is set only from empty, by a Create
\* whose create call succeeded, to the identifier that call returned (or by
\* an import, to the identifier the caller gave), and from then on it is
\* never replaced by another identifier: it changes only when Read clears it.
C8_IdSetOnceThenOnlyCleared ==
    [][/\ ((created' = 0 /\ imports' = 0) => d'.id = EmptyId)
       /\ (d'.id # d.id =>
             \/ /\ d.id = EmptyId
                /\ last'.op = "Create"
                /\ last'.create.err = NilErr
                /\ d'.id = last'.create.id
             \/ /\ d.id = EmptyId
                /\ last'.op = "Import"
                /\ imports' = imports + 1
             \/ /\ d.id # EmptyId
                /\ d'.id = EmptyId
                /\ last'.op = "Read")]_vars

C8_Witness ==
    /\ created > 1
    /\ imports = 0
    /\ last.op = "Read"
    /\ last.pre.id = RtbId(created)
    /\ d.id = EmptyId

\* C9: Delete returns nil exactly when the delete call reported not-found, or
\* succeeded and the wait for deletion succeeded too; the remote route table
\* is then absent; and Delete leaves the resource data, the identifier
\* included, as it found it.
C9_DeleteSuccessMeansAbsent ==
    last.op = "Delete" =>
        /\ Succeeded <=> \/ isAWSErr(last.delete, NotFoundCode)
                         \/ last.delete = NilErr /\ last.wait = NilErr
        /\ Succeeded => remote.state \in {StateNone, StateDeleted}
        /\ d = last.pre

C9_Witness ==
    /\ last.op = "Delete"
    /\ last.delete = NilErr
    /\ last.wait = NilErr
    /\ Succeeded
    /\ remote.state = StateDeleted
    /\ d.id = RtbId(created)

\* C10: a Read whose describe call fails with an error other than not-found
\* returns an error and leaves the resource data as it was.
C10_ReadErrorLeavesData ==
    (/\ last.op = "Read"
     /\ last.describe.err # NilErr
     /\ ~isAWSErr(last.describe.err, NotFoundCode)) =>
        (Failed /\ d = last.pre)

C10_Witness ==
    /\ last.op = "Read"
    /\ last.describe.err = IncorrectStateErr
    /\ Failed
    /\ d.id # EmptyId
    /\ d = last.pre

=============================================================================
